---- MODULE Spec2Model ----
(***************************************************************************)
(* Model of src/src/index.tsx: the form reducer (actionsMap / reducer),    *)
(* the FormBuilder controller (mount effect, loader, delayed dispatch,     *)
(* submission) and the two field accessors (FormBuilderField and           *)
(* useFormBuilderField).                                                   *)
(*                                                                         *)
(* JavaScript objects live in a heap (a sequence of cells addressed by     *)
(* their index) so that object identity and in-place mutation by lodash    *)
(* `set` are visible.  Strings are sequences of characters so that path    *)
(* strings are really parsed.                                              *)
(***************************************************************************)
EXTENDS Integers, Sequences, FiniteSets, TLC

\* ------------------------------------------------------------------ bounds
MaxSteps == 2        \* handler calls per run (accessor calls, dispatches, submits)
MaxEntries == 2      \* entries of a submitted form

\* --------------------------------------------------------------- JS values
\* Every value has the same shape: t is the type tag, s the characters of a
\* string, n a number / boolean (1, 0) / heap address, f the own properties
\* of a materialised object.
NoProps == [k \in {} |-> 0]
Undef == [t |-> "undef", s |-> <<>>, n |-> 0, f |-> NoProps]
Null == [t |-> "null", s |-> <<>>, n |-> 0, f |-> NoProps]
Str(chars) == [t |-> "str", s |-> chars, n |-> 0, f |-> NoProps]
Num(i) == [t |-> "num", s |-> <<>>, n |-> i, f |-> NoProps]
Bool(b) == [t |-> "bool", s |-> <<>>, n |-> IF b THEN 1 ELSE 0, f |-> NoProps]
Ref(id) == [t |-> "ref", s |-> <<>>, n |-> id, f |-> NoProps]
Obj(props) == [t |-> "obj", s |-> <<>>, n |-> 0, f |-> props]
Arr(props) == [t |-> "arr", s |-> <<>>, n |-> 0, f |-> props]
EmptyObj == Obj(NoProps)
EmptyArr == Arr(NoProps)
False == Bool(FALSE)

\* JavaScript truthiness (ToBoolean)
Truthy(v) ==
  CASE v.t = "undef" -> FALSE
    [] v.t = "null" -> FALSE
    [] v.t = "str" -> Len(v.s) > 0
    [] v.t = "num" -> v.n # 0
    [] v.t = "bool" -> v.n = 1
    [] OTHER -> TRUE

\* lodash isObject: a heap object (plain object or array)
IsObject(v) == v.t = "ref"

\* ------------------------------------------------------------ path strings
Digits == {"0", "1", "2", "3", "4", "5", "6", "7", "8", "9"}
IsSpecial(c) == c \in {".", "[", "]"}
\* \w over the alphabet used here (letters, digits; no punctuation but . [ ])
IsWordChar(c) == ~IsSpecial(c)

\* lodash isIndex: /^(?:0|[1-9]\d*)$/
IsIndex(key) ==
  /\ Len(key) > 0
  /\ \A i \in 1..Len(key) : key[i] \in Digits
  /\ (Len(key) = 1 \/ key[1] # "0")

\* end of the maximal run of characters of the given kind that starts at i
\* (i - 1 when the run is empty)
RECURSIVE RunEnd(_, _, _)
RunEnd(str, i, kind) ==
  IF i > Len(str) THEN i - 1
  ELSE IF (kind = "plain" /\ ~IsSpecial(str[i])) \/ (kind = "digit" /\ str[i] \in Digits)
       THEN RunEnd(str, i + 1, kind)
       ELSE i - 1

\* position of the "]" closing a bracketed number \[(\d+(?:\.\d+)?)\] opened
\* at i, or 0 when the text at i is not a bracketed number
BracketNumberEnd(str, i) ==
  IF i > Len(str) \/ str[i] # "[" THEN 0
  ELSE LET d == RunEnd(str, i + 1, "digit")
       IN IF d < i + 1 THEN 0
          ELSE IF d + 1 <= Len(str) /\ str[d + 1] = "]" THEN d + 1
          ELSE IF d + 1 <= Len(str) /\ str[d + 1] = "."
               THEN LET e == RunEnd(str, d + 2, "digit")
                    IN IF e >= d + 2 /\ e + 1 <= Len(str) /\ str[e + 1] = "]"
                       THEN e + 1 ELSE 0
               ELSE 0

\* "." or "[]" at position i: the position just after it, or 0
SeparatorAfter(str, i) ==
  IF i <= Len(str) /\ str[i] = "." THEN i + 1
  ELSE IF i + 1 <= Len(str) /\ str[i] = "[" /\ str[i + 1] = "]" THEN i + 2
  ELSE 0

\* the empty alternative of rePropName: (?=(?:\.|\[\])(?:\.|\[\]|$))
EmptyKeyAt(str, i) ==
  LET a == SeparatorAfter(str, i)
  IN a # 0 /\ (a > Len(str) \/ SeparatorAfter(str, a) # 0)

\* lodash stringToPath: the matches of rePropName, left to right
RECURSIVE ScanPath(_, _, _)
ScanPath(str, i, acc) ==
  IF i > Len(str) THEN acc
  ELSE IF ~IsSpecial(str[i])
       THEN LET j == RunEnd(str, i, "plain")
            IN ScanPath(str, j + 1, Append(acc, SubSeq(str, i, j)))
       ELSE IF BracketNumberEnd(str, i) # 0
            THEN LET j == BracketNumberEnd(str, i)
                 IN ScanPath(str, j + 1, Append(acc, SubSeq(str, i + 1, j - 1)))
            ELSE IF EmptyKeyAt(str, i)
                 THEN ScanPath(str, i + 1, Append(acc, <<>>))
                 ELSE ScanPath(str, i + 1, acc)

StringToPath(str) ==
  ScanPath(str, 1, IF Len(str) > 0 /\ str[1] = "." THEN <<(<<>>)>> ELSE <<>>)

\* reIsDeepProp: a "." or a bracket pair with no bracket inside
IsDeepProp(str) ==
  \/ \E i \in 1..Len(str) : str[i] = "."
  \/ \E i, j \in 1..Len(str) :
       /\ i < j /\ str[i] = "[" /\ str[j] = "]"
       /\ \A k \in (i + 1)..(j - 1) : str[k] \notin {"[", "]"}

\* reIsPlainProp: /^\w*$/
IsPlainProp(str) == \A i \in 1..Len(str) : IsWordChar(str[i])

\* isKey with the `value in Object(object)` test negated
IsKeyNegatedIn(str, props) ==
  IsPlainProp(str) \/ ~IsDeepProp(str) \/ str \notin DOMAIN props

\* lodash isKey(value, object); props are the own properties of object
IsKey(str, props) ==
  IsPlainProp(str) \/ ~IsDeepProp(str) \/ str \in DOMAIN props

\* lodash castPath(value, object)
CastPath(str, props) ==
  IF IsKey(str, props) THEN <<str>> ELSE StringToPath(str)

\* ------------------------------------------------------------------- heap
\* own properties of the object v refers to; none for null / undefined
PropsOf(h, v) == IF v.t = "ref" THEN h[v.n].f ELSE NoProps

\* object[key] on a materialised value: own property, or a character of a
\* string, else undefined
PropOfTree(tree, key) ==
  IF tree.t \in {"obj", "arr"}
  THEN IF key \in DOMAIN tree.f THEN tree.f[key] ELSE Undef
  ELSE IF tree.t = "str" /\ IsIndex(key) /\ Len(key) = 1
       THEN LET i == CHOOSE d \in 0..9 : ToString(d) = key[1]
            IN IF i < Len(tree.s) THEN Str(<<tree.s[i + 1]>>) ELSE Undef
       ELSE Undef

\* the value v with every reference replaced by the object it refers to
RECURSIVE Materialize(_, _)
Materialize(h, v) ==
  IF v.t = "ref"
  THEN [t |-> h[v.n].t, s |-> <<>>, n |-> 0,
        f |-> [k \in DOMAIN h[v.n].f |-> Materialize(h, h[v.n].f[k])]]
  ELSE v

\* lodash baseGet over a materialised object, then get's `undefined` default
RECURSIVE BaseGet(_, _, _)
BaseGet(tree, path, index) ==
  IF tree.t \in {"undef", "null"} \/ index > Len(path)
  THEN IF index > 1 /\ index = Len(path) + 1 THEN tree ELSE Undef
  ELSE BaseGet(PropOfTree(tree, path[index]), path, index + 1)

\* lodash get(object, path) on a materialised object
GetTree(tree, str) ==
  IF tree.t \in {"undef", "null"} THEN Undef
  ELSE BaseGet(tree, CastPath(str, tree.f), 1)

\* lodash get(object, path) where v is a value in heap h
Get(h, v, str) == GetTree(Materialize(h, v), str)

\* lodash assignValue: object[key] = value on the heap cell id
AssignValue(h, id, key, value) ==
  [h EXCEPT ![id].f = [k \in DOMAIN h[id].f \cup {key} |->
                         IF k = key THEN value ELSE h[id].f[k]]]

\* lodash baseSet: walks path from the cell `nested`, keeps an existing
\* object on the way, replaces anything else by a new [] or {} and assigns
\* value at the last key; mutates the cells in place
RECURSIVE BaseSet(_, _, _, _, _)
BaseSet(h, nested, path, index, value) ==
  LET key == path[index]
      objValue == IF key \in DOMAIN h[nested].f THEN h[nested].f[key] ELSE Undef
  IN IF index = Len(path) THEN AssignValue(h, nested, key, value)
     ELSE IF IsObject(objValue)
          THEN BaseSet(h, objValue.n, path, index + 1, value)
          ELSE LET fresh == Len(h) + 1
                   cell == IF IsIndex(path[index + 1]) THEN EmptyArr ELSE EmptyObj
               IN BaseSet(AssignValue(Append(h, cell), nested, key, Ref(fresh)),
                          fresh, path, index + 1, value)

\* lodash set(object, path, value) for an object on the heap; returns the heap
Set(h, id, str, value) ==
  BaseSet(h, id, CastPath(str, h[id].f), 1, value)

\* { ...a, ...b } for two property maps
Spread(a, b) ==
  [k \in DOMAIN a \cup DOMAIN b |-> IF k \in DOMAIN b THEN b[k] ELSE a[k]]

\* --------------------------------------------------------------- reducer
ON_STATE_CHANGE == "ON_STATE_CHANGE"
ON_ERRORS_CHANGE == "ON_ERRORS_CHANGE"
ON_FIELD_VALUE_CHANGE == "ON_FIELD_VALUE_CHANGE"
FormBuilderActions == {ON_STATE_CHANGE, ON_ERRORS_CHANGE, ON_FIELD_VALUE_CHANGE}

\* Heap after construction: initialState.fieldsValues and initialState.errors
InitialHeap == <<EmptyObj, EmptyObj>>
initialState ==
  [fieldsValues |-> Ref(1), errors |-> Ref(2), loadingInitialData |-> FALSE]

\* An action: type, the {name, value} payload of the two field actions, and
\* for ON_STATE_CHANGE the partial state `patch` with the set `keys` of the
\* properties it carries.
NoPatch == [keys |-> {}, fieldsValues |-> Undef, errors |-> Undef,
            loadingInitialData |-> FALSE]
Action(type, name, value, patch) ==
  [type |-> type, name |-> name, value |-> value, patch |-> patch]
StateChange(patch) == Action(ON_STATE_CHANGE, <<>>, Undef, patch)
ErrorsChange(name, value) == Action(ON_ERRORS_CHANGE, name, value, NoPatch)
FieldValueChange(name, value) == Action(ON_FIELD_VALUE_CHANGE, name, value, NoPatch)

\* The result of a reducer call: kind "state" with the new state and heap,
\* "nonstate" when the value returned is not a state, "throw" when the call
\* throws.
Returned(st, h) == [kind |-> "state", st |-> st, heap |-> h]
NonState(st, h) == [kind |-> "nonstate", st |-> st, heap |-> h]
Thrown(st, h) == [kind |-> "throw", st |-> st, heap |-> h]

\* the payload spread over initialState instead of state
OnStateChangeOverInitial(st, h, patch) ==
  Returned([k \in DOMAIN st |->
              IF k \in patch.keys THEN patch[k] ELSE initialState[k]], h)

\* actionsMap[ON_STATE_CHANGE]: ({ ...state, ...nextValue })
OnStateChange(st, h, patch) ==
  Returned([k \in DOMAIN st |-> IF k \in patch.keys THEN patch[k] ELSE st[k]], h)

\* the handler without `...state.errors`
OnErrorsChangeDropOthers(st, h, name, value) ==
  Returned([st EXCEPT !.errors = Ref(Len(h) + 1)],
           Append(h, Obj(Spread(NoProps, (name :> value)))))

\* actionsMap[ON_ERRORS_CHANGE]:
\*   ({ ...state, errors: { ...state.errors, [data.name]: data.value } })
OnErrorsChange(st, h, name, value) ==
  Returned([st EXCEPT !.errors = Ref(Len(h) + 1)],
           Append(h, Obj(Spread(PropsOf(h, st.errors), (name :> value)))))

\* the handler with set applied to an empty object and no spread of
\* state.fieldsValues
OnFieldValueChangeFromEmpty(st, h, name, value) ==
  LET copy == Len(h) + 1
      h1 == Append(h, EmptyObj)
      h2 == Set(h1, copy, name, value)
      h3 == Append(h2, Obj(h2[copy].f))
  IN Returned([st EXCEPT !.fieldsValues = Ref(Len(h3))], h3)

\* the handler with its two spreads in the other order
OnFieldValueChangeStaleWins(st, h, name, value) ==
  LET copy == Len(h) + 1
      h1 == Append(h, Obj(PropsOf(h, st.fieldsValues)))
      h2 == Set(h1, copy, name, value)
      h3 == Append(h2, Obj(Spread(h2[copy].f, PropsOf(h, st.fieldsValues))))
  IN Returned([st EXCEPT !.fieldsValues = Ref(Len(h3))], h3)

\* actionsMap[ON_FIELD_VALUE_CHANGE]:
\*   ({ ...state, fieldsValues: { ...state.fieldsValues,
\*        ...set({ ...state.fieldsValues }, data.name, data.value) } })
\* The copy handed to set is shallow: nested objects are shared with state.
OnFieldValueChange(st, h, name, value) ==
  LET copy == Len(h) + 1
      h1 == Append(h, Obj(PropsOf(h, st.fieldsValues)))
      h2 == Set(h1, copy, name, value)
      h3 == Append(h2, Obj(Spread(PropsOf(h, st.fieldsValues), h2[copy].f)))
  IN Returned([st EXCEPT !.fieldsValues = Ref(Len(h3))], h3)

\* Names that `type in actionsMap` also accepts because actionsMap is an
\* object literal: members of Object.prototype.
ObjectPrototypeKeys == {"toString", "constructor", "__proto__"}

\* `action.type in actionsMap`
InActionsMap(type) == type \in FormBuilderActions \cup ObjectPrototypeKeys

\* reducer(state, action)
reducer(st, h, action) ==
  IF ~InActionsMap(action.type) THEN Returned(st, h)
  ELSE CASE action.type = ON_STATE_CHANGE -> OnStateChange(st, h, action.patch)
         [] action.type = ON_ERRORS_CHANGE ->
              OnErrorsChange(st, h, action.name, action.value)
         [] action.type = ON_FIELD_VALUE_CHANGE ->
              OnFieldValueChange(st, h, action.name, action.value)
         \* Object.prototype.toString.call(actionsMap, ...) is "[object Object]"
         [] action.type = "toString" -> NonState(st, h)
         \* Object(state, payload) is state
         [] action.type = "constructor" -> Returned(st, h)
         \* actionsMap.__proto__ is not a function
         [] action.type = "__proto__" -> Thrown(st, h)

\* the state with every object materialised
View(h, st) ==
  [fieldsValues |-> Materialize(h, st.fieldsValues),
   errors |-> Materialize(h, st.errors),
   loadingInitialData |-> st.loadingInitialData]

\* ------------------------------------------------------------------ inputs
Ada == Str(<<"A", "d", "a">>)
Oslo == Str(<<"O", "s", "l", "o">>)
EmptyString == Str(<<>>)
MustBePositive == Str(<<"must be positive">>)

NameA == <<"a">>
NameAB == <<"a", ".", "b">>
NameA0 == <<"a", "[", "0", "]">>
Names == {NameA, NameAB, NameA0}
EntryKeys == Names

\* values a widget passes to onFieldChange / onChange, and to a hook
\* accessor's onChange
FieldValues == {Ada, Num(-5)}
HookValues == {Num(-5), EmptyString}

\* validators a hook accessor may be given: none, the spec's
\* v => v < 0 && "must be positive", and v => undefined
Validators == {"none", "positive", "noop"}
Validate(validator, v) ==
  CASE validator = "positive" ->
         IF v.t = "num" /\ v.n < 0 THEN MustBePositive ELSE False
    [] validator = "noop" -> Undef

\* values an initialFieldValuesLoader may resolve to
LoaderResults ==
  {EmptyObj,
   Obj((<<"a">> :> Obj((<<"b">> :> Oslo)))),
   Obj((NameAB :> Ada)),
   Obj((<<"a">> :> Num(-5))),
   Null}

\* actions a widget may hand to the context's dispatch
RawActions ==
  {Action(t, NameA, Ada, NoPatch) : t \in {"UNKNOWN"} \cup ObjectPrototypeKeys}
  \cup {ErrorsChange(n, e) : n \in {NameA, NameAB}, e \in {MustBePositive, False}}
  \cup {FieldValueChange(NameAB, Oslo)}
  \cup {StateChange([NoPatch EXCEPT !.keys = {"loadingInitialData"},
                                    !.loadingInitialData = b]) : b \in BOOLEAN}

\* the (key, value) entries of a submitted form
EntryValues == {Ada, Oslo}
Entry(key, value) == [key |-> key, value |-> value]
RECURSIVE EntryLists(_)
EntryLists(len) ==
  IF len = 0 THEN {<<>>}
  ELSE LET shorter == EntryLists(len - 1)
       IN shorter \cup {Append(es, Entry(k, v)) :
                           es \in {x \in shorter : Len(x) = len - 1},
                           k \in EntryKeys, v \in EntryValues}

\* ------------------------------------------------------------------- state
VARIABLES
  state,        \* the reducer state held by useReducer
  heap,         \* the objects state refers to
  hasLoader,    \* props.initialFieldValuesLoader is configured
  pc,           \* where loadInitialData is: "rendered" (first render done,
                \* effect not yet run), "static" (no loader), "awaiting" (the
                \* loader's promise), "rejected" (the promise rejected),
                \* "delay" (the timer), "done"
  loaded,       \* the value the loader resolved to
  fault,        \* "none", or how a reducer call broke the component
  steps,        \* handler calls so far
  prev,         \* the state handed to the last reducer call
  prevView,     \* View of prev at the time of that call
  dispatched,   \* the actions dispatched by the last handler, in order
  lastOp,       \* the last handler called and its arguments
  submitted,    \* the last onSubmit call: how many so far, entries, values
  mounted,      \* the FormBuilder component is in the tree
  scheduled     \* setTimeout calls made by loadInitialData so far

vars == <<state, heap, hasLoader, pc, loaded, fault, steps, prev, prevView,
          dispatched, lastOp, submitted, mounted, scheduled>>

Op(op, name, value, validator) ==
  [op |-> op, name |-> name, value |-> value, validator |-> validator]
NoOp == Op("none", <<>>, Undef, "none")

Init ==
  /\ state = initialState
  /\ heap = InitialHeap
  /\ hasLoader \in BOOLEAN
  /\ pc = "rendered"
  /\ loaded = Undef
  /\ fault = "none"
  /\ steps = 0
  /\ prev = initialState
  /\ prevView = View(InitialHeap, initialState)
  /\ dispatched = <<>>
  /\ lastOp = NoOp
  /\ submitted = [calls |-> 0, entries |-> <<>>, values |-> Undef]
  /\ mounted = TRUE
  /\ scheduled = 0

\* the reducer applied to the actions acts[i..] in order, as useReducer does
\* with the updates queued by one handler; stops at a call that fails
RECURSIVE Reduce(_, _, _, _)
RECURSIVE ReduceNext(_, _, _)
Reduce(st, h, acts, i) ==
  IF i > Len(acts) THEN Returned(st, h)
  ELSE ReduceNext(reducer(st, h, acts[i]), acts, i)
ReduceNext(r, acts, i) ==
  IF r.kind = "state" THEN Reduce(r.st, r.heap, acts, i + 1) ELSE r

\* the component's variables after a handler's dispatches: `before` is the
\* outcome of all but the last reducer call, `after` that of all of them
Dispatched(before, after, acts) ==
  /\ state' = after.st
  /\ heap' = after.heap
  /\ fault' = IF after.kind = "state" THEN "none"
              ELSE IF after.kind = "throw" THEN "threw" ELSE "nonState"
  /\ prev' = before.st
  /\ prevView' = View(before.heap, before.st)
  /\ dispatched' = acts

\* dispatch(acts[1]); ...; dispatch(acts[n]) issued by one handler
Dispatch(acts) ==
  Dispatched(Reduce(state, heap, SubSeq(acts, 1, Len(acts) - 1), 1),
             Reduce(state, heap, acts, 1), acts)

\* a fresh copy of the object graph `tree` on the heap (what a resolved
\* loader hands over): the new heap and the value referring to the copy
RECURSIVE Alloc(_, _)
RECURSIVE AllocProps(_, _, _, _)
Alloc(h, tree) ==
  IF tree.t \notin {"obj", "arr"} THEN [heap |-> h, value |-> tree]
  ELSE LET id == Len(h) + 1
       IN [heap |-> AllocProps(Append(h, [tree EXCEPT !.f = NoProps]), id,
                               tree.f, DOMAIN tree.f),
           value |-> Ref(id)]
AllocProps(h, id, props, keys) ==
  IF keys = {} THEN h
  ELSE LET k == CHOOSE x \in keys : TRUE
           r == Alloc(h, props[k])
       IN AllocProps(AssignValue(r.heap, id, k, r.value), id, props, keys \ {k})

\* ---------------------------------------------------------- FormBuilder
\* the effect without its empty dependency list: it runs again after the
\* render that follows the delayed dispatch
MountEveryRender ==
  /\ pc \in {"rendered", "done"}
  /\ fault = "none"
  /\ IF hasLoader
     THEN /\ Dispatch(<<StateChange([NoPatch EXCEPT
                          !.keys = {"loadingInitialData"},
                          !.loadingInitialData = TRUE])>>)
          /\ pc' = "awaiting"
     ELSE /\ pc' = "static"
          /\ UNCHANGED <<state, heap, fault, prev, prevView, dispatched>>
  /\ lastOp' = Op("loadInitialData", <<>>, Undef, "none")
  /\ UNCHANGED <<hasLoader, loaded, steps, submitted, mounted, scheduled>>

\* loadInitialData without its `if (initialFieldValuesLoader)`
MountWithoutLoaderCheck ==
  /\ pc = "rendered"
  /\ fault = "none"
  /\ Dispatch(<<StateChange([NoPatch EXCEPT
                   !.keys = {"loadingInitialData"},
                   !.loadingInitialData = TRUE])>>)
  /\ pc' = "awaiting"
  /\ lastOp' = Op("loadInitialData", <<>>, Undef, "none")
  /\ UNCHANGED <<hasLoader, loaded, steps, submitted, mounted, scheduled>>

\* useEffect(() => { loadInitialData() }, []): runs once, after the first
\* render; with a loader it dispatches { loadingInitialData: true } and
\* awaits the loader
Mount ==
  /\ pc = "rendered"
  /\ fault = "none"
  /\ IF hasLoader
     THEN /\ Dispatch(<<StateChange([NoPatch EXCEPT
                          !.keys = {"loadingInitialData"},
                          !.loadingInitialData = TRUE])>>)
          /\ pc' = "awaiting"
     ELSE /\ pc' = "static"
          /\ UNCHANGED <<state, heap, fault, prev, prevView, dispatched>>
  /\ lastOp' = Op("loadInitialData", <<>>, Undef, "none")
  /\ UNCHANGED <<hasLoader, loaded, steps, submitted, mounted, scheduled>>

\* await initialFieldValuesLoader(props) completes with a value; the timer
\* is armed
LoaderResolve ==
  /\ pc = "awaiting"
  /\ fault = "none"
  /\ \E result \in LoaderResults :
       LET r == Alloc(heap, result)
       IN /\ heap' = r.heap
          /\ loaded' = r.value
  /\ pc' = "delay"
  /\ scheduled' = scheduled + 1
  /\ lastOp' = Op("loaderResolved", <<>>, Undef, "none")
  /\ UNCHANGED <<state, hasLoader, fault, steps, prev, prevView, dispatched,
                 submitted, mounted>>

\* a rejection handled by arming the timer all the same
LoaderRejectArmsTimer ==
  /\ pc = "awaiting"
  /\ fault = "none"
  /\ pc' = "delay"
  /\ scheduled' = scheduled + 1
  /\ lastOp' = Op("loaderRejected", <<>>, Undef, "none")
  /\ UNCHANGED <<state, heap, hasLoader, loaded, fault, steps, prev, prevView,
                 dispatched, submitted, mounted>>

\* await initialFieldValuesLoader(props) throws: the promise rejected and
\* nothing catches it, so loadInitialData ends there
LoaderReject ==
  /\ pc = "awaiting"
  /\ fault = "none"
  /\ pc' = "rejected"
  /\ lastOp' = Op("loaderRejected", <<>>, Undef, "none")
  /\ UNCHANGED <<state, heap, hasLoader, loaded, fault, steps, prev, prevView,
                 dispatched, submitted, mounted, scheduled>>

\* the component leaves the tree; the effect returns no cleanup, so nothing
\* else happens
Unmount ==
  /\ mounted
  /\ pc # "rendered"
  /\ mounted' = FALSE
  /\ lastOp' = Op("unmount", <<>>, Undef, "none")
  /\ UNCHANGED <<state, heap, hasLoader, pc, loaded, fault, steps, prev,
                 prevView, dispatched, submitted, scheduled>>

\* the callback without fieldsValues in its payload
TimerFireWithoutValues ==
  /\ pc = "delay"
  /\ fault = "none"
  /\ Dispatch(<<StateChange([NoPatch EXCEPT
                   !.keys = {"loadingInitialData"},
                   !.loadingInitialData = FALSE])>>)
  /\ pc' = "done"
  /\ lastOp' = Op("delayedDispatch", <<>>, Undef, "none")
  /\ UNCHANGED <<hasLoader, loaded, steps, submitted, mounted, scheduled>>

\* a timer that the effect's cleanup clears when the component leaves the tree
TimerFireUnlessUnmounted ==
  /\ pc = "delay"
  /\ fault = "none"
  /\ mounted
  /\ Dispatch(<<StateChange([NoPatch EXCEPT
                   !.keys = {"fieldsValues", "loadingInitialData"},
                   !.fieldsValues = loaded,
                   !.loadingInitialData = FALSE])>>)
  /\ pc' = "done"
  /\ lastOp' = Op("delayedDispatch", <<>>, Undef, "none")
  /\ UNCHANGED <<hasLoader, loaded, steps, submitted, mounted, scheduled>>

\* the setTimeout callback: dispatch { fieldsValues, loadingInitialData: false };
\* nothing clears the timer, so it also runs after the component has left
\* the tree
TimerFire ==
  /\ pc = "delay"
  /\ fault = "none"
  /\ Dispatch(<<StateChange([NoPatch EXCEPT
                   !.keys = {"fieldsValues", "loadingInitialData"},
                   !.fieldsValues = loaded,
                   !.loadingInitialData = FALSE])>>)
  /\ pc' = "done"
  /\ lastOp' = Op("delayedDispatch", <<>>, Undef, "none")
  /\ UNCHANGED <<hasLoader, loaded, steps, submitted, mounted, scheduled>>

\* a handler of the rendered tree can run: the component is in the tree, the
\* mount effect has run, the component has not broken, and the run is within
\* its bound
CanCall == mounted /\ pc # "rendered" /\ fault = "none" /\ steps < MaxSteps

\* onFieldChange(fieldName, value) of the context
OnFieldChange(op, name, value) ==
  /\ CanCall
  /\ Dispatch(<<FieldValueChange(name, value)>>)
  /\ lastOp' = Op(op, name, value, "none")
  /\ steps' = steps + 1
  /\ UNCHANGED <<hasLoader, pc, loaded, submitted, mounted, scheduled>>

ContextOnFieldChange ==
  \E name \in Names, value \in FieldValues :
    OnFieldChange("onFieldChange", name, value)

\* FormBuilderField: onChange: value => { onFieldChange(fieldName, value) }
FieldOnChange ==
  \E name \in Names, value \in FieldValues :
    OnFieldChange("FormBuilderField.onChange", name, value)

\* onChange that does not write the value when the validator rejects it
HookActionsBlocking(name, validator, value) ==
  IF validator # "none" /\ Truthy(Validate(validator, value))
  THEN <<ErrorsChange(name, Validate(validator, value))>>
  ELSE IF validator # "none"
       THEN <<ErrorsChange(name, False), FieldValueChange(name, value)>>
       ELSE <<FieldValueChange(name, value)>>

\* onChange that clears the field's error even when it has no validator
HookActionsAlwaysClears(name, validator, value) ==
  (IF validator # "none" /\ Truthy(Validate(validator, value))
   THEN <<ErrorsChange(name, Validate(validator, value))>>
   ELSE <<ErrorsChange(name, False)>>)
  \o <<FieldValueChange(name, value)>>

\* onChange without the `: false` branch: a passing value leaves the stored
\* error in place
HookActionsNeverClears(name, validator, value) ==
  (IF validator # "none" /\ Truthy(Validate(validator, value))
   THEN <<ErrorsChange(name, Validate(validator, value))>>
   ELSE <<>>)
  \o <<FieldValueChange(name, value)>>

\* the actions useFormBuilderField's onChange dispatches, in order
HookActions(name, validator, value) ==
  (IF validator = "none" THEN <<>>
   ELSE IF Truthy(Validate(validator, value))
        THEN <<ErrorsChange(name, Validate(validator, value))>>
        ELSE <<ErrorsChange(name, False)>>)
  \o <<FieldValueChange(name, value)>>

\* useFormBuilderField(fieldName, defaultValue, validator).onChange(value)
HookField(name, validator) ==
  \E value \in HookValues :
    /\ CanCall
    /\ Dispatch(HookActions(name, validator, value))
    /\ lastOp' = Op("useFormBuilderField.onChange", name, value, validator)
    /\ steps' = steps + 1
    /\ UNCHANGED <<hasLoader, pc, loaded, submitted, mounted, scheduled>>

\* any widget built on the hook
HookOnChange ==
  \E name \in Names, validator \in Validators : HookField(name, validator)

\* one widget: useFormBuilderField("a", defaultValue, mustBePositive)
ValidatedFieldOnChange == HookField(NameA, "positive")

\* default values a widget may pass to the hook
DefaultValues == {Num(18), Undef}

\* a fallback that applies only when nothing is stored
HookValueNullish(name, defaultValue) ==
  IF Get(heap, state.fieldsValues, name).t \in {"undef", "null"}
  THEN defaultValue
  ELSE Get(heap, state.fieldsValues, name)

\* useFormBuilderField: value: get(state.fieldsValues, fieldName) || defaultValue
HookValue(name, defaultValue) ==
  IF Truthy(Get(heap, state.fieldsValues, name))
  THEN Get(heap, state.fieldsValues, name)
  ELSE defaultValue

\* useFormBuilderField: fieldError: state.errors[fieldName]
HookFieldError(name) == PropOfTree(Materialize(heap, state.errors), name)

\* FormBuilderField: value: get(state.fieldsValues, fieldName)
FieldValue(name) == Get(heap, state.fieldsValues, name)

\* FormBuilderField: fieldError: state.errors[fieldName]
FieldError(name) == PropOfTree(Materialize(heap, state.errors), name)

\* dispatch(action) of the context, called by a widget with its own action
RawDispatch ==
  \E action \in RawActions :
    /\ CanCall
    /\ Dispatch(<<action>>)
    /\ lastOp' = Op("dispatch", action.name, action.value, "none")
    /\ steps' = steps + 1
    /\ UNCHANGED <<hasLoader, pc, loaded, submitted, mounted, scheduled>>

\* the values object the submit handler builds:
\*   let values = {}; for (let [key, value] of form) set(values, key, value)
RECURSIVE SetEntries(_, _, _, _)
SetEntries(h, id, entries, i) ==
  IF i > Len(entries) THEN h
  ELSE SetEntries(Set(h, id, entries[i].key, entries[i].value), id, entries, i + 1)

SubmitValues(entries) ==
  LET id == Len(heap) + 1
  IN Materialize(SetEntries(Append(heap, EmptyObj), id, entries, 1), Ref(id))

\* what the render shows: FormLoader while state.loadingInitialData, else
\* the form element with the children
Rendered == IF state.loadingInitialData THEN "FormLoader" ELSE "Form"

\* some key of state.errors holds a truthy error
HasErrors ==
  \E k \in DOMAIN PropsOf(heap, state.errors) :
    Truthy(PropsOf(heap, state.errors)[k])

\* a submit handler that returns early while an error is outstanding
SubmitBlockedByErrors ==
  \E entries \in EntryLists(MaxEntries) :
    /\ CanCall
    /\ ~state.loadingInitialData
    /\ ~HasErrors
    /\ submitted' = [calls |-> submitted.calls + 1, entries |-> entries,
                     values |-> SubmitValues(entries)]
    /\ lastOp' = Op("onSubmit", <<>>, Undef, "none")
    /\ steps' = steps + 1
    /\ UNCHANGED <<state, heap, hasLoader, pc, loaded, fault, prev, prevView,
                   dispatched, mounted, scheduled>>

\* the form's onSubmit; the form element exists only while
\* !state.loadingInitialData
Submit ==
  \E entries \in EntryLists(MaxEntries) :
    /\ CanCall
    /\ ~state.loadingInitialData
    /\ submitted' = [calls |-> submitted.calls + 1, entries |-> entries,
                     values |-> SubmitValues(entries)]
    /\ lastOp' = Op("onSubmit", <<>>, Undef, "none")
    /\ steps' = steps + 1
    /\ UNCHANGED <<state, heap, hasLoader, pc, loaded, fault, prev, prevView,
                   dispatched, mounted, scheduled>>

\* the controller's life cycle, with field writes through the context
NextLoad ==
  \/ Mount
  \/ LoaderResolve
  \/ LoaderReject
  \/ TimerFire
  \/ ContextOnFieldChange

\* one mounted form driven by the controller and the field accessors
NextForm ==
  \/ NextLoad
  \/ FieldOnChange
  \/ HookOnChange

\* ... whose widgets also call the context's dispatch themselves
NextDispatch ==
  \/ NextLoad
  \/ RawDispatch

\* the controller's life cycle, with submissions of the rendered form
NextSubmit ==
  \/ Mount
  \/ LoaderResolve
  \/ LoaderReject
  \/ TimerFire
  \/ Submit

\* a form with one validated field that is submitted; its loader, if it has
\* one, does not resolve
NextSubmitValidated ==
  \/ Mount
  \/ LoaderReject
  \/ ValidatedFieldOnChange
  \/ Submit

\* the controller's life cycle, with widgets built on the hook only
NextHookForm ==
  \/ Mount
  \/ LoaderResolve
  \/ LoaderReject
  \/ TimerFire
  \/ HookOnChange

\* the controller's life cycle, with one validated field and nothing else
NextValidatedField ==
  \/ Mount
  \/ LoaderResolve
  \/ LoaderReject
  \/ TimerFire
  \/ ValidatedFieldOnChange

\* the controller's life cycle, with the component leaving the tree
NextUnmount ==
  \/ NextLoad
  \/ Unmount

SpecLoad == Init /\ [][NextLoad]_vars
SpecLoadFair == SpecLoad /\ WF_vars(TimerFire)
Spec == Init /\ [][NextForm]_vars
SpecDispatch == Init /\ [][NextDispatch]_vars
SpecSubmit == Init /\ [][NextSubmit]_vars
SpecSubmitValidated == Init /\ [][NextSubmitValidated]_vars
SpecHookForm == Init /\ [][NextHookForm]_vars
SpecValidatedField == Init /\ [][NextValidatedField]_vars
SpecUnmount == Init /\ [][NextUnmount]_vars
SpecUnmountFair == SpecUnmount /\ WF_vars(TimerFire)

\* ------------------------------------------------------------- properties
LastAction == dispatched[Len(dispatched)]

\* the last step was a handler whose last reducer call was of this type
JustReduced(type) ==
  /\ fault = "none"
  /\ lastOp.op \notin {"none", "loaderResolved", "loaderRejected", "unmount",
                      "onSubmit"}
  /\ dispatched # <<>>
  /\ LastAction.type = type

IsPrefix(p, q) == Len(p) <= Len(q) /\ SubSeq(q, 1, Len(p)) = p

\* the key sequence of path string str in the object tree
KeysOf(tree, str) == CastPath(str, tree.f)

\* path keys[index..] is set in tree: every key is an own property of the
\* mapping reached so far
RECURSIVE HasPath(_, _, _)
HasPath(tree, keys, index) ==
  \/ index > Len(keys)
  \/ /\ tree.t \in {"obj", "arr"}
     /\ keys[index] \in DOMAIN tree.f
     /\ HasPath(tree.f[keys[index]], keys, index + 1)

\* str is a path set in the fieldsValues handed to the last reducer call
WasSet(str) ==
  /\ prevView.fieldsValues.t = "obj"
  /\ HasPath(prevView.fieldsValues, KeysOf(prevView.fieldsValues, str), 1)

\* the key sequences of the two path strings overlap: one is a prefix of
\* the other (equal sequences included)
Overlap(p, q) ==
  LET kp == KeysOf(prevView.fieldsValues, p)
      kq == KeysOf(prevView.fieldsValues, q)
  IN IsPrefix(kp, kq) \/ IsPrefix(kq, kp)

\* the last reducer call left errors and loadingInitialData alone
ErrorsAndLoadingKept ==
  /\ state.errors = prev.errors
  /\ Materialize(heap, state.errors) = prevView.errors
  /\ state.loadingInitialData = prev.loadingInitialData

\* C1 (every other path): after reduce(s, ON_FIELD_VALUE_CHANGE{n, v}) path n
\* resolves to v and every other path p # n that was set in s.fieldsValues
\* resolves to the value it had in s; errors and loadingInitialData are
\* unchanged.
C1_EveryOtherPathKept ==
  JustReduced(ON_FIELD_VALUE_CHANGE) =>
    /\ Get(heap, state.fieldsValues, LastAction.name) = LastAction.value
    /\ \A p \in Names \ {LastAction.name} :
         WasSet(p) => Get(heap, state.fieldsValues, p)
                        = GetTree(prevView.fieldsValues, p)
    /\ ErrorsAndLoadingKept

\* C1 (disjoint paths): after reduce(s, ON_FIELD_VALUE_CHANGE{n, v}) path n resolves
\* to v and every path p that was set in s.fieldsValues and whose key
\* sequence neither is a prefix of nor extends the key sequence of n
\* resolves to the value it had in s; errors and loadingInitialData are
\* unchanged.
C1_DisjointPathsKept ==
  JustReduced(ON_FIELD_VALUE_CHANGE) =>
    /\ Get(heap, state.fieldsValues, LastAction.name) = LastAction.value
    /\ \A p \in Names :
         WasSet(p) /\ ~Overlap(p, LastAction.name)
           => Get(heap, state.fieldsValues, p) = GetTree(prevView.fieldsValues, p)
    /\ ErrorsAndLoadingKept

\* a field change was reduced over a state holding another, disjoint path
C1_Witness ==
  /\ JustReduced(ON_FIELD_VALUE_CHANGE)
  /\ \E p \in Names : WasSet(p) /\ ~Overlap(p, LastAction.name)
  /\ LastAction.name = NameA0

\* C2: reduce(s, a) does not modify s: every path of s.fieldsValues and
\* every key of s.errors resolves after the call to what it resolved to
\* before it.
C2_ReducerLeavesArgumentAlone ==
  fault = "none" => View(heap, prev) = prevView

\* C3: for every action type outside the three known ones, reduce(s, {type})
\* returns s unchanged, does not throw and returns a state.
C3_UnknownTypeReturnsState ==
  (lastOp.op = "dispatch" /\ LastAction.type \notin FormBuilderActions) =>
    /\ fault = "none"
    /\ state = prev
    /\ View(heap, state) = prevView

\* C4: after reduce(s, ON_ERRORS_CHANGE{n, v}) errors[n] is v, every other
\* key of errors has the value it had in s, and fieldsValues and
\* loadingInitialData are unchanged.
C4_ErrorsChange ==
  JustReduced(ON_ERRORS_CHANGE) =>
    LET errors == Materialize(heap, state.errors).f
    IN /\ LastAction.name \in DOMAIN errors
       /\ errors[LastAction.name] = LastAction.value
       /\ DOMAIN errors = DOMAIN prevView.errors.f \cup {LastAction.name}
       /\ \A k \in DOMAIN prevView.errors.f \ {LastAction.name} :
            errors[k] = prevView.errors.f[k]
       /\ state.fieldsValues = prev.fieldsValues
       /\ Materialize(heap, state.fieldsValues) = prevView.fieldsValues
       /\ state.loadingInitialData = prev.loadingInitialData

\* an error was written for one name while another name held an error
C4_Witness ==
  /\ JustReduced(ON_ERRORS_CHANGE)
  /\ DOMAIN prevView.errors.f \ {LastAction.name} # {}

\* C5: ON_FIELD_VALUE_CHANGE is idempotent: the state reduce(s, a) is left
\* equal by reducing a once more.
C5_FieldChangeIdempotent ==
  JustReduced(ON_FIELD_VALUE_CHANGE) =>
    LET again == reducer(state, heap, LastAction)
    IN /\ again.kind = "state"
       /\ View(again.heap, again.st) = View(heap, state)

\* a nested path was written into a state that already held values
C5_Witness ==
  /\ JustReduced(ON_FIELD_VALUE_CHANGE)
  /\ LastAction.name = NameAB
  /\ prevView.fieldsValues.t = "obj"
  /\ DOMAIN prevView.fieldsValues.f # {}

\* C6: with a loader configured, from mount until the delayed dispatch has
\* fired loadingInitialData is true and only FormLoader is rendered.
C6_LoaderShownUntilLoaded ==
  (hasLoader /\ pc # "done") =>
    (state.loadingInitialData /\ Rendered = "FormLoader")

\* the state holds exactly the loaded values and the form is shown
StateIsLoaded ==
  /\ ~state.loadingInitialData
  /\ Materialize(heap, state.fieldsValues) = Materialize(heap, loaded)

\* C7: once the loader has resolved with L the form eventually has
\* loadingInitialData false and fieldsValues L, which needs the timer to
\* have fired after the loader resolved: while the loader is awaited or the
\* timer is pending the form is still loading.
C7_LoadedAfterResolveThenTimer ==
  /\ (pc = "delay") ~> (pc = "done" /\ StateIsLoaded)
  /\ [](pc \in {"awaiting", "delay"} => state.loadingInitialData)

\* the delayed dispatch wrote a loaded nested value
C7_Witness ==
  /\ pc = "done"
  /\ StateIsLoaded
  /\ Get(heap, state.fieldsValues, NameAB) = Oslo

\* C8: once the delayed dispatch has made loadingInitialData false, no
\* controller or accessor step makes it true again.
C8_LoadingGateOneWay ==
  [][(pc = "done" /\ ~state.loadingInitialData)
       => (pc' = "done" /\ ~state'.loadingInitialData)]_vars

\* an accessor wrote a field after the form became ready
C8_Witness ==
  /\ pc = "done"
  /\ ~state.loadingInitialData
  /\ lastOp.op = "useFormBuilderField.onChange"

\* C9: a hook accessor with a validator dispatches one ON_ERRORS_CHANGE
\* for its field, carrying the validator's result when truthy and false
\* otherwise, then ON_FIELD_VALUE_CHANGE; afterwards errors[n] is that
\* error value and path n resolves to the new value.
C9_HookValidatesThenWrites ==
  (lastOp.op = "useFormBuilderField.onChange" /\ lastOp.validator # "none") =>
    LET result == Validate(lastOp.validator, lastOp.value)
        error == IF Truthy(result) THEN result ELSE False
    IN /\ dispatched = <<ErrorsChange(lastOp.name, error),
                         FieldValueChange(lastOp.name, lastOp.value)>>
       /\ fault = "none"
       /\ PropOfTree(Materialize(heap, state.errors), lastOp.name) = error
       /\ Get(heap, state.fieldsValues, lastOp.name) = lastOp.value

\* a hook accessor's onChange was called with a value its validator rejects
C9_Witness ==
  /\ lastOp.op = "useFormBuilderField.onChange"
  /\ lastOp.validator = "positive"
  /\ PropOfTree(Materialize(heap, state.errors), lastOp.name) = MustBePositive
  /\ Get(heap, state.fieldsValues, lastOp.name) = Num(-5)

\* the fieldsValues reached from the empty state by one
\* ON_FIELD_VALUE_CHANGE per entry, in order
ReducedEntries(entries) ==
  LET r == Reduce(initialState, InitialHeap,
                  [i \in 1..Len(entries) |->
                     FieldValueChange(entries[i].key, entries[i].value)], 1)
  IN Materialize(r.heap, r.st.fieldsValues)

\* C10: the values handed to onSubmit equal the fieldsValues obtained by
\* reducing ON_FIELD_VALUE_CHANGE{key, value} for each submitted entry in
\* order from the empty fieldsValues.
C10_SubmitDecodesLikeReducer ==
  submitted.calls > 0 => submitted.values = ReducedEntries(submitted.entries)

\* a form with a duplicate nested key was submitted
C10_Witness ==
  /\ submitted.calls > 0
  /\ submitted.entries = <<Entry(NameAB, Ada), Entry(NameAB, Oslo)>>
  /\ GetTree(submitted.values, NameAB) = Oslo

\* C11: a submit happens only while loadingInitialData is false, calls
\* onSubmit exactly once and leaves fieldsValues, errors and
\* loadingInitialData as they were; and whenever the form is shown and its
\* handlers can run, a submit can happen, whatever errors holds.
C11_SubmitOnceStateKept ==
  /\ [][submitted' # submitted =>
         /\ ~state.loadingInitialData
         /\ submitted'.calls = submitted.calls + 1
         /\ state' = state
         /\ View(heap', state') = View(heap, state)]_vars
  /\ [](CanCall /\ Rendered = "Form" => ENABLED Submit)

\* onSubmit was called while errors held a validation error
C11_Witness ==
  /\ lastOp.op = "onSubmit"
  /\ submitted.calls = 1
  /\ HasErrors
  /\ PropsOf(heap, state.errors)[NameA] = MustBePositive

\* the keys of the errors mapping
ErrorKeys(h, st) == DOMAIN PropsOf(h, st.errors)

\* C12: errors starts empty, and a step changes errors only if it is the
\* onChange of a hook accessor with a validator, and then only at the key
\* that is the accessor's field name; mount, the loader's life cycle,
\* onFieldChange, the render-prop onChange and a hook onChange without a
\* validator leave errors as it is.
C12_ErrorsWrittenByValidatorsOnly ==
  /\ ErrorKeys(heap, state) = {}
  /\ [][View(heap', state').errors # View(heap, state).errors =>
         /\ lastOp'.op = "useFormBuilderField.onChange"
         /\ lastOp'.validator # "none"
         /\ ErrorKeys(heap', state') = ErrorKeys(heap, state) \cup {lastOp'.name}
         /\ \A k \in ErrorKeys(heap, state) \ {lastOp'.name} :
              PropsOf(heap', state'.errors)[k] = PropsOf(heap, state.errors)[k]]_vars

\* a validated hook accessor for a.b has stored its error, next to the error
\* of another field
C12_Witness ==
  /\ lastOp.op = "useFormBuilderField.onChange"
  /\ lastOp.validator = "positive"
  /\ lastOp.name = NameAB
  /\ ErrorKeys(heap, state) = {NameA, NameAB}
  /\ PropsOf(heap, state.errors)[NameAB] = MustBePositive
  /\ PropsOf(heap, state.errors)[NameA] = False

\* C13: in every reachable state fieldsValues is a plain mapping, never null
\* or undefined, whatever the loader resolved to and whatever fields were
\* changed.
C13_FieldsValuesIsMapping ==
  /\ state.fieldsValues.t = "ref"
  /\ Materialize(heap, state.fieldsValues).t = "obj"

\* C14: the hook accessor for field n with default d returns d when path n
\* resolves to nothing in fieldsValues and when the value stored there is
\* falsy, and the stored value otherwise; right after its onChange(v) it
\* returns v when v is truthy and d when v is falsy.
C14_HookValueFallsBackWhenFalsy ==
  \A n \in Names :
    LET stored == FieldValue(n)
    IN \A d \in DefaultValues :
         LET value == HookValue(n, d)
         IN /\ stored = Undef => value = d
            /\ stored \in {EmptyString, Num(0), False} => value = d
            /\ Truthy(stored) => value = stored
            /\ (lastOp.op = "useFormBuilderField.onChange" /\ lastOp.name = n)
                 => value = IF Truthy(lastOp.value) THEN lastOp.value ELSE d

\* the empty string was written through the hook accessor of a.b, which then
\* reads the default; the value -5 written to a[0] reads back as -5
C14_Witness ==
  /\ lastOp.op = "useFormBuilderField.onChange"
  /\ lastOp.name = NameAB
  /\ lastOp.value = EmptyString
  /\ FieldValue(NameAB) = EmptyString
  /\ HookValue(NameAB, Num(18)) = Num(18)
  /\ HookValue(NameA0, Num(18)) = Num(-5)

\* the state and heap a handler's dispatches lead to from the current state
AfterDispatch(acts) == Reduce(state, heap, acts, 1)

\* C15: for every field name, a hook accessor with no validator and an
\* undefined default returns the same value and the same fieldError as the
\* render-prop accessor, and onChange(v) on either leads to the same state.
C15_AccessorsEquivalent ==
  \A n \in Names :
    /\ HookValue(n, Undef) = FieldValue(n)
    /\ HookFieldError(n) = FieldError(n)
    /\ \A v \in FieldValues \cup HookValues :
         AfterDispatch(HookActions(n, "none", v))
           = AfterDispatch(<<FieldValueChange(n, v)>>)

\* without a loader the form is shown, never loading, and nothing is
\* scheduled; before any field change its fieldsValues is empty
NoLoaderFormIsStatic ==
  ~hasLoader =>
    /\ scheduled = 0
    /\ pc \in {"rendered", "static"}
    /\ ~state.loadingInitialData
    /\ Rendered = "Form"
    /\ steps = 0 => Materialize(heap, state.fieldsValues) = EmptyObj

\* C16 (exactly one): once loadInitialData has ended, with the delayed
\* dispatch or with the loader's rejection, a form with a loader has
\* scheduled exactly one deferred update; a form without a loader schedules
\* none, is shown at once with empty fieldsValues and is never loading.
C16_ExactlyOneDeferredUpdate ==
  /\ hasLoader /\ pc \in {"done", "rejected"} => scheduled = 1
  /\ scheduled <= 1
  /\ NoLoaderFormIsStatic

\* C16 (at most one): a form with a loader schedules at most one deferred
\* update: exactly one once the loader has resolved, none while the loader
\* is pending and none when it rejects; a form without a loader schedules
\* none, is shown at once with empty fieldsValues and is never loading.
C16_AtMostOneDeferredUpdate ==
  /\ scheduled = IF pc \in {"delay", "done"} THEN 1 ELSE 0
  /\ pc \in {"delay", "done"} => hasLoader
  /\ NoLoaderFormIsStatic

\* the one deferred update of a form with a loader has run, after field
\* changes
C16_Witness ==
  /\ hasLoader
  /\ pc = "done"
  /\ scheduled = 1
  /\ steps > 0
  /\ lastOp.op = "delayedDispatch"

\* C17: nothing is cancelled on unmount. When the component has left the
\* tree while the timer is pending, the delayed ON_STATE_CHANGE is still
\* dispatched afterwards; when it has left while the loader is awaited, the
\* loader's completion still arms the timer.
C17_DelayedDispatchAfterUnmount ==
  /\ (~mounted /\ pc = "delay") ~>
       (~mounted /\ pc = "done" /\ lastOp.op = "delayedDispatch")
  /\ [](~mounted /\ pc = "delay" => ENABLED TimerFire)
  /\ [](~mounted /\ pc = "awaiting" => ENABLED LoaderResolve)

\* the delayed dispatch was issued against an unmounted instance
C17_Witness ==
  /\ ~mounted
  /\ pc = "done"
  /\ lastOp.op = "delayedDispatch"
  /\ LastAction.type = ON_STATE_CHANGE
  /\ ~state.loadingInitialData

\* C18: while the loader is pending, and for ever once it has rejected, the
\* form is loading, shows FormLoader and has no deferred update scheduled:
\* only the loader resolving leads out of that, so with a loader that never
\* resolves loadingInitialData stays true in every later state.
C18_StuckLoadingWithoutResolve ==
  /\ [](pc \in {"awaiting", "rejected"} =>
         /\ state.loadingInitialData
         /\ Rendered = "FormLoader"
         /\ scheduled = 0)
  /\ [][(pc \in {"awaiting", "rejected"} /\ lastOp'.op # "loaderResolved") =>
         (/\ pc' \in {"awaiting", "rejected"}
          /\ state'.loadingInitialData
          /\ scheduled' = 0)]_vars
  /\ [][pc = "rejected" => pc' = "rejected"]_vars

\* the loader has rejected and fields were changed since: still loading
C18_Witness ==
  /\ pc = "rejected"
  /\ steps = MaxSteps
  /\ lastOp.op = "useFormBuilderField.onChange"
  /\ state.loadingInitialData
  /\ scheduled = 0

\* C19: ON_STATE_CHANGE replaces the keys of its payload and keeps the
\* others. After the mount dispatch { loadingInitialData: true } fieldsValues
\* and errors are what they were; after the delayed dispatch fieldsValues is
\* exactly the value the loader resolved to, whatever was written before,
\* errors is what it was and loadingInitialData is false.
C19_StateChangeShallowMerge ==
  /\ (lastOp.op = "loadInitialData" /\ hasLoader) =>
       /\ state.loadingInitialData
       /\ state.fieldsValues = prev.fieldsValues
       /\ state.errors = prev.errors
       /\ View(heap, state).fieldsValues = prevView.fieldsValues
       /\ View(heap, state).errors = prevView.errors
  /\ lastOp.op = "delayedDispatch" =>
       /\ ~state.loadingInitialData
       /\ state.fieldsValues = loaded
       /\ View(heap, state).fieldsValues \in LoaderResults
       /\ state.errors = prev.errors
       /\ View(heap, state).errors = prevView.errors

\* the delayed dispatch replaced a fieldsValues that held a written value by
\* the loader's empty mapping, and kept the error stored with that value
C19_Witness ==
  /\ lastOp.op = "delayedDispatch"
  /\ GetTree(prevView.fieldsValues, NameA) = Num(-5)
  /\ View(heap, state).fieldsValues = EmptyObj
  /\ FieldError(NameA) = MustBePositive

\* the stored error of field a agrees with the validator applied to the
\* value stored at path a
ErrorMatchesValue ==
  Truthy(FieldError(NameA)) <=> Truthy(Validate("positive", FieldValue(NameA)))

====
